---- MODULE Spec2Model ----
(***************************************************************************)
(* Car Rental Management (src/car_rental.py): the fixed-length record      *)
(* codec, the flat-file record store and the entity repositories.          *)
(*                                                                         *)
(* Representation.  A byte is a number 0..255 and a bytes object is a      *)
(* sequence of bytes.  A Python str is a sequence of Unicode code points.  *)
(* A Python float is its IEEE-754 binary64 bit pattern, written as the     *)
(* sequence of its 8 bytes, most significant first.  A file is the         *)
(* sequence of its bytes; the file system fs maps each existing path to    *)
(* its content.                                                            *)
(***************************************************************************)
EXTENDS Integers, Sequences, FiniteSets, TLC

VARIABLES fs, call, ret, pc, job, cin, cout, rd, handles, inv, raced

vars == <<fs, call, ret, pc, job, cin, cout, rd, handles, inv, raced>>

(***************************************************************************)
(* Small helpers over sequences.                                           *)
(***************************************************************************)
Min(a, b) == IF a < b THEN a ELSE b

Max(a, b) == IF a > b THEN a ELSE b

\* b[:n]
Take(b, n) == SubSeq(b, 1, Min(n, Len(b)))

\* b' ' * n
Spaces(n) == [i \in 1..Max(n, 0) |-> 32]

RECURSIVE Flatten(_)
\* the concatenation of a sequence of byte blocks
Flatten(blocks) ==
    IF blocks = <<>> THEN <<>> ELSE Head(blocks) \o Flatten(Tail(blocks))

(***************************************************************************)
(* UTF-8, as str.encode('utf-8') and bytes.decode('utf-8', errors=...)     *)
(* compute it.                                                             *)
(***************************************************************************)
utf8_encode_char(cp) ==
    IF cp < 128 THEN <<cp>>
    ELSE IF cp < 2048 THEN <<192 + (cp \div 64), 128 + (cp % 64)>>
    ELSE IF cp < 65536 THEN
        <<224 + (cp \div 4096), 128 + ((cp \div 64) % 64), 128 + (cp % 64)>>
    ELSE <<240 + (cp \div 262144), 128 + ((cp \div 4096) % 64),
           128 + ((cp \div 64) % 64), 128 + (cp % 64)>>

RECURSIVE utf8_encode(_)
utf8_encode(s) ==
    IF s = <<>> THEN <<>> ELSE utf8_encode_char(Head(s)) \o utf8_encode(Tail(s))

\* a continuation byte 10xxxxxx
IsCont(x) == x >= 128 /\ x <= 191

\* the length of the sequence a lead byte announces; 0 for a byte that cannot lead
SeqLen(b0) ==
    IF b0 < 128 THEN 1
    ELSE IF b0 >= 194 /\ b0 <= 223 THEN 2
    ELSE IF b0 >= 224 /\ b0 <= 239 THEN 3
    ELSE IF b0 >= 240 /\ b0 <= 244 THEN 4
    ELSE 0

\* the second byte's range excludes overlong forms, surrogates and > U+10FFFF
SecondOk(b0, b1) ==
    CASE b0 = 224 -> b1 >= 160 /\ b1 <= 191
      [] b0 = 237 -> b1 >= 128 /\ b1 <= 159
      [] b0 = 240 -> b1 >= 144 /\ b1 <= 191
      [] b0 = 244 -> b1 >= 128 /\ b1 <= 143
      [] OTHER -> IsCont(b1)

\* how many bytes from position i on form a valid prefix of an n-byte sequence
GoodPrefix(b, i, n) ==
    IF n >= 2 /\ i + 1 <= Len(b) /\ SecondOk(b[i], b[i + 1])
    THEN IF n >= 3 /\ i + 2 <= Len(b) /\ IsCont(b[i + 2])
         THEN IF n >= 4 /\ i + 3 <= Len(b) /\ IsCont(b[i + 3]) THEN 4 ELSE 3
         ELSE 2
    ELSE 1

CodePoint(b, i, n) ==
    CASE n = 1 -> b[i]
      [] n = 2 -> (b[i] - 192) * 64 + (b[i + 1] - 128)
      [] n = 3 -> (b[i] - 224) * 4096 + (b[i + 1] - 128) * 64 + (b[i + 2] - 128)
      [] OTHER -> (b[i] - 240) * 262144 + (b[i + 1] - 128) * 4096
                  + (b[i + 2] - 128) * 64 + (b[i + 3] - 128)

\* the sequence at position i is complete and valid
WellFormedAt(b, i) == SeqLen(b[i]) > 0 /\ GoodPrefix(b, i, SeqLen(b[i])) = SeqLen(b[i])

RECURSIVE utf8_decode_ignore(_, _)
\* errors='ignore': an invalid or truncated sequence is skipped, the rest decoded
utf8_decode_ignore(b, i) ==
    IF i > Len(b) THEN <<>>
    ELSE IF WellFormedAt(b, i)
         THEN <<CodePoint(b, i, SeqLen(b[i]))>> \o utf8_decode_ignore(b, i + SeqLen(b[i]))
         ELSE utf8_decode_ignore(b, i + GoodPrefix(b, i, SeqLen(b[i])))

\* the value standing for a raised UnicodeDecodeError; no str equals it
UnicodeDecodeError == <<-1>>

RECURSIVE utf8_valid(_, _)
\* every sequence from position i on is complete and valid
utf8_valid(b, i) ==
    i > Len(b) \/ (WellFormedAt(b, i) /\ utf8_valid(b, i + SeqLen(b[i])))

\* errors='strict': any invalid or truncated sequence raises
utf8_decode_strict(b) ==
    IF utf8_valid(b, 1) THEN utf8_decode_ignore(b, 1) ELSE UnicodeDecodeError

RECURSIVE rstrip_space(_)
\* b.rstrip(b' ')
rstrip_space(b) ==
    IF b # <<>> /\ b[Len(b)] = 32 THEN rstrip_space(SubSeq(b, 1, Len(b) - 1)) ELSE b

(***************************************************************************)
(* Utilities for fixed-length utf-8 fields.                                *)
(***************************************************************************)
\* a variant that cuts by characters, s[:length], instead of by bytes
fixed_bytes_by_chars(s, length) ==
    LET b == utf8_encode(Take(s, length))
    IN  b \o Spaces(length - Len(b))

\* Encode string to utf-8, truncate or pad with spaces to exact byte length.
fixed_bytes(s, length) ==
    LET b == Take(utf8_encode(s), length)
    IN  b \o Spaces(length - Len(b))

\* a variant that does not strip the padding
bytes_to_str_no_rstrip(b) == utf8_decode_ignore(b, 1)

bytes_to_str(b) == utf8_decode_ignore(rstrip_space(b), 1)

(***************************************************************************)
(* struct: little-endian, no alignment ('<').                              *)
(***************************************************************************)
\* 'I': a 4-byte unsigned integer, least significant byte first
pack_uint32(n) ==
    <<n % 256, (n \div 256) % 256, (n \div 65536) % 256, (n \div 16777216) % 256>>

unpack_uint32(b) == b[1] + 256 * b[2] + 65536 * b[3] + 16777216 * b[4]

\* 'd': the 8 bytes of the binary64 pattern, least significant byte first
pack_double(x) == [i \in 1..8 |-> x[9 - i]]

unpack_double(b) == [i \in 1..8 |-> b[9 - i]]

RECURSIVE Log2(_)
\* floor(log2(n)) for n >= 1
Log2(n) == IF n < 2 THEN 0 ELSE 1 + Log2(n \div 2)

RECURSIVE Pow2(_)
Pow2(k) == IF k = 0 THEN 1 ELSE 2 * Pow2(k - 1)

\* float(n) for an integer 0 <= n < 2^21: sign 0, biased exponent, 52-bit fraction
\* (the low 32 bits of the fraction are zero for such n)
float(n) ==
    IF n = 0 THEN <<0, 0, 0, 0, 0, 0, 0, 0>>
    ELSE LET e  == Log2(n)
             hw == (e + 1023) * 1048576 + (n - Pow2(e)) * Pow2(20 - e)
         IN  <<hw \div 16777216, (hw \div 65536) % 256, (hw \div 256) % 256, hw % 256,
               0, 0, 0, 0>>

(***************************************************************************)
(* Record formats and models.                                              *)
(***************************************************************************)
\* struct.calcsize('<10s10s20s30sId10s3s')
CAR_RECORD_SIZE == 95

\* struct.calcsize('<10s50s13s15s50s')
CUST_RECORD_SIZE == 138

\* struct.calcsize('<10s10s10s10s10sd10s')
CONTRACT_RECORD_SIZE == 68

Car(car_id, plate, brand, model, year, price_per_day, status, rented) ==
    [car_id |-> car_id, plate |-> plate, brand |-> brand, model |-> model,
     year |-> year, price_per_day |-> price_per_day, status |-> status,
     rented |-> rented]

Car_pack(self) ==
    fixed_bytes(self.car_id, 10) \o fixed_bytes(self.plate, 10)
    \o fixed_bytes(self.brand, 20) \o fixed_bytes(self.model, 30)
    \o pack_uint32(self.year) \o pack_double(self.price_per_day)
    \o fixed_bytes(self.status, 10) \o fixed_bytes(self.rented, 3)

Car_unpack(b) ==
    Car(bytes_to_str(SubSeq(b, 1, 10)), bytes_to_str(SubSeq(b, 11, 20)),
        bytes_to_str(SubSeq(b, 21, 40)), bytes_to_str(SubSeq(b, 41, 70)),
        unpack_uint32(SubSeq(b, 71, 74)), unpack_double(SubSeq(b, 75, 82)),
        bytes_to_str(SubSeq(b, 83, 92)), bytes_to_str(SubSeq(b, 93, 95)))

Customer(cust_id, name, id_card, phone, email) ==
    [cust_id |-> cust_id, name |-> name, id_card |-> id_card, phone |-> phone,
     email |-> email]

Customer_pack(self) ==
    fixed_bytes(self.cust_id, 10) \o fixed_bytes(self.name, 50)
    \o fixed_bytes(self.id_card, 13) \o fixed_bytes(self.phone, 15)
    \o fixed_bytes(self.email, 50)

Customer_unpack(b) ==
    Customer(bytes_to_str(SubSeq(b, 1, 10)), bytes_to_str(SubSeq(b, 11, 60)),
             bytes_to_str(SubSeq(b, 61, 73)), bytes_to_str(SubSeq(b, 74, 88)),
             bytes_to_str(SubSeq(b, 89, 138)))

Contract(contract_id, car_id, cust_id, start_date, end_date, total_cost, status) ==
    [contract_id |-> contract_id, car_id |-> car_id, cust_id |-> cust_id,
     start_date |-> start_date, end_date |-> end_date, total_cost |-> total_cost,
     status |-> status]

Contract_pack(self) ==
    fixed_bytes(self.contract_id, 10) \o fixed_bytes(self.car_id, 10)
    \o fixed_bytes(self.cust_id, 10) \o fixed_bytes(self.start_date, 10)
    \o fixed_bytes(self.end_date, 10) \o pack_double(self.total_cost)
    \o fixed_bytes(self.status, 10)

Contract_unpack(b) ==
    Contract(bytes_to_str(SubSeq(b, 1, 10)), bytes_to_str(SubSeq(b, 11, 20)),
             bytes_to_str(SubSeq(b, 21, 30)), bytes_to_str(SubSeq(b, 31, 40)),
             bytes_to_str(SubSeq(b, 41, 50)), unpack_double(SubSeq(b, 51, 58)),
             bytes_to_str(SubSeq(b, 59, 68)))

(***************************************************************************)
(* Repositories (file access).  Each operator takes the file system f and  *)
(* returns what the method computes; a mutating method returns the new     *)
(* file system and its return value as [fs |-> ..., ret |-> ...].          *)
(***************************************************************************)
\* Python's None
None == [none |-> TRUE]

CARS_DAT == "cars.dat"

CUSTOMERS_DAT == "customers.dat"

CONTRACTS_DAT == "contracts.dat"

\* a variant that opens the file for writing whether or not it exists
ensure_exists_truncating(f, filename) ==
    [p \in DOMAIN f \cup {filename} |-> IF p = filename THEN <<>> ELSE f[p]]

\* BinaryRepository.__init__: an absent file is created empty, an existing one kept
ensure_exists(f, filename) ==
    IF filename \in DOMAIN f THEN f
    ELSE [p \in DOMAIN f \cup {filename} |-> IF p = filename THEN <<>> ELSE f[p]]

RECURSIVE read_blocks(_, _, _)
\* the read loop of iterate_raw from byte offset pos
read_blocks(content, pos, recsize) ==
    LET b == SubSeq(content, pos + 1, Min(pos + recsize, Len(content)))
    IN  IF b = <<>> \/ Len(b) < recsize THEN <<>>
        ELSE <<b>> \o read_blocks(content, pos + recsize, recsize)

iterate_raw(f, filename, recsize) == read_blocks(f[filename], 0, recsize)

read_all_raw(f, filename, recsize) == iterate_raw(f, filename, recsize)

\* a variant that writes the block without its trailing padding
append_raw_unpadded(f, filename, block) ==
    [f EXCEPT ![filename] = @ \o rstrip_space(block)]

\* open(filename, 'ab') ... f.write(block)
append_raw(f, filename, block) == [f EXCEPT ![filename] = @ \o block]

\* a variant that writes the new content over the store file itself
tmp_name_in_place(filename) == filename

\* the path overwrite_all_raw writes the new content to
tmp_name(filename) == filename \o ".tmp"

\* open(tmp, 'wb'): created, or truncated if a leftover exists
open_wb(f, path) ==
    [p \in DOMAIN f \cup {path} |-> IF p = path THEN <<>> ELSE f[p]]

\* f.write(r) on the handle of path
write_block(f, path, r) == [f EXCEPT ![path] = @ \o r]

\* os.replace(src, dst): dst atomically becomes the file src names
os_replace(f, src, dst) ==
    [p \in (DOMAIN f \ {src}) \cup {dst} |-> IF p = dst THEN f[src] ELSE f[p]]

RECURSIVE write_blocks(_, _, _)
write_blocks(f, path, records) ==
    IF records = <<>> THEN f
    ELSE write_blocks(write_block(f, path, Head(records)), path, Tail(records))

overwrite_all_raw(f, filename, records) ==
    LET tmp == tmp_name(filename)
    IN  os_replace(write_blocks(open_wb(f, tmp), tmp, records), tmp, filename)

\* the string literals of the source
STR_Deleted == <<68, 101, 108, 101, 116, 101, 100>>

STR_Active == <<65, 99, 116, 105, 118, 101>>

STR_Yes == <<89, 101, 115>>

STR_No == <<78, 111>>

(***************************************************************************)
(* CarRepository                                                           *)
(***************************************************************************)
\* a variant that lists the newest record first
CarRepository_all_newest_first(f) ==
    LET raw == iterate_raw(f, CARS_DAT, CAR_RECORD_SIZE)
    IN  [i \in 1..Len(raw) |-> Car_unpack(raw[Len(raw) + 1 - i])]

CarRepository_all(f) ==
    LET raw == iterate_raw(f, CARS_DAT, CAR_RECORD_SIZE)
    IN  [i \in 1..Len(raw) |-> Car_unpack(raw[i])]

\* a variant that returns the last match
CarRepository_find_last(f, car_id) ==
    LET cs == CarRepository_all(f)
        hits == {i \in 1..Len(cs) : cs[i].car_id = car_id}
    IN  IF hits = {} THEN None
        ELSE cs[CHOOSE i \in hits : \A j \in hits : i >= j]

\* a variant that never finds a record
CarRepository_find_nothing(f, car_id) == None

CarRepository_find(f, car_id) ==
    LET cs == CarRepository_all(f)
        hits == {i \in 1..Len(cs) : cs[i].car_id = car_id}
    IN  IF hits = {} THEN None
        ELSE cs[CHOOSE i \in hits : \A j \in hits : i <= j]

\* a variant that appends without the existence check
CarRepository_add_unchecked(f, car) ==
    [fs |-> append_raw(f, CARS_DAT, Car_pack(car)), ret |-> TRUE]

CarRepository_add(f, car) ==
    IF CarRepository_find(f, car.car_id) # None THEN [fs |-> f, ret |-> FALSE]
    ELSE [fs |-> append_raw(f, CARS_DAT, Car_pack(car)), ret |-> TRUE]

\* the list 'out' the loop of update builds
Car_update_out(raw, car_id, new_car) ==
    [i \in 1..Len(raw) |->
        IF Car_unpack(raw[i]).car_id = car_id THEN Car_pack(new_car) ELSE raw[i]]

\* a variant in which the rewrite is done whether or not a record matched
Car_changed_always(raw, car_id) == TRUE

\* the flag 'changed' after the loop of update and of mark_deleted
Car_changed(raw, car_id) == \E i \in 1..Len(raw) : Car_unpack(raw[i]).car_id = car_id

CarRepository_update(f, car_id, new_car) ==
    LET raw == read_all_raw(f, CARS_DAT, CAR_RECORD_SIZE)
        changed == Car_changed(raw, car_id)
    IN  [fs |-> IF changed
                THEN overwrite_all_raw(f, CARS_DAT, Car_update_out(raw, car_id, new_car))
                ELSE f,
         ret |-> changed]

RECURSIVE Car_deleted_out_removed(_, _)
\* a variant that leaves the matching records out
Car_deleted_out_removed(raw, car_id) ==
    IF raw = <<>> THEN <<>>
    ELSE IF Car_unpack(Head(raw)).car_id = car_id
         THEN Car_deleted_out_removed(Tail(raw), car_id)
         ELSE <<Head(raw)>> \o Car_deleted_out_removed(Tail(raw), car_id)

\* the list 'out' the loop of mark_deleted builds
Car_deleted_out(raw, car_id) ==
    [i \in 1..Len(raw) |->
        LET c == Car_unpack(raw[i])
        IN  IF c.car_id = car_id THEN Car_pack([c EXCEPT !.status = STR_Deleted])
            ELSE raw[i]]

CarRepository_mark_deleted(f, car_id) ==
    LET raw == read_all_raw(f, CARS_DAT, CAR_RECORD_SIZE)
        changed == Car_changed(raw, car_id)
    IN  [fs |-> IF changed
                THEN overwrite_all_raw(f, CARS_DAT, Car_deleted_out(raw, car_id))
                ELSE f,
         ret |-> changed]

(***************************************************************************)
(* CustomerRepository, and the physical removal done by the menu           *)
(***************************************************************************)
CustomerRepository_all(f) ==
    LET raw == iterate_raw(f, CUSTOMERS_DAT, CUST_RECORD_SIZE)
    IN  [i \in 1..Len(raw) |-> Customer_unpack(raw[i])]

CustomerRepository_find(f, cust_id) ==
    LET cs == CustomerRepository_all(f)
        hits == {i \in 1..Len(cs) : cs[i].cust_id = cust_id}
    IN  IF hits = {} THEN None
        ELSE cs[CHOOSE i \in hits : \A j \in hits : i <= j]

CustomerRepository_add(f, cust) ==
    IF CustomerRepository_find(f, cust.cust_id) # None THEN [fs |-> f, ret |-> FALSE]
    ELSE [fs |-> append_raw(f, CUSTOMERS_DAT, Customer_pack(cust)), ret |-> TRUE]

Customer_update_out(raw, cust_id, new_cust) ==
    [i \in 1..Len(raw) |->
        IF Customer_unpack(raw[i]).cust_id = cust_id THEN Customer_pack(new_cust)
        ELSE raw[i]]

Customer_changed(raw, cust_id) ==
    \E i \in 1..Len(raw) : Customer_unpack(raw[i]).cust_id = cust_id

CustomerRepository_update(f, cust_id, new_cust) ==
    LET raw == read_all_raw(f, CUSTOMERS_DAT, CUST_RECORD_SIZE)
        changed == Customer_changed(raw, cust_id)
    IN  [fs |-> IF changed
                THEN overwrite_all_raw(f, CUSTOMERS_DAT,
                                       Customer_update_out(raw, cust_id, new_cust))
                ELSE f,
         ret |-> changed]

RECURSIVE Customer_delete_out(_, _)
\* the list 'out' the loop of delete_customer builds: every match is skipped
Customer_delete_out(raw, cid) ==
    IF raw = <<>> THEN <<>>
    ELSE IF Customer_unpack(Head(raw)).cust_id = cid
         THEN Customer_delete_out(Tail(raw), cid)
         ELSE <<Head(raw)>> \o Customer_delete_out(Tail(raw), cid)

\* menu.delete_customer; ret is 'found' (the message printed)
delete_customer(f, cid) ==
    LET raw == read_all_raw(f, CUSTOMERS_DAT, CUST_RECORD_SIZE)
        found == Customer_changed(raw, cid)
    IN  [fs |-> IF found
                THEN overwrite_all_raw(f, CUSTOMERS_DAT, Customer_delete_out(raw, cid))
                ELSE f,
         ret |-> found]

(***************************************************************************)
(* ContractRepository                                                      *)
(***************************************************************************)
ContractRepository_all(f) ==
    LET raw == iterate_raw(f, CONTRACTS_DAT, CONTRACT_RECORD_SIZE)
    IN  [i \in 1..Len(raw) |-> Contract_unpack(raw[i])]

ContractRepository_find(f, contract_id) ==
    LET cs == ContractRepository_all(f)
        hits == {i \in 1..Len(cs) : cs[i].contract_id = contract_id}
    IN  IF hits = {} THEN None
        ELSE cs[CHOOSE i \in hits : \A j \in hits : i <= j]

ContractRepository_add(f, contract) ==
    IF ContractRepository_find(f, contract.contract_id) # None
    THEN [fs |-> f, ret |-> FALSE]
    ELSE [fs |-> append_raw(f, CONTRACTS_DAT, Contract_pack(contract)), ret |-> TRUE]

Contract_update_out(raw, contract_id, new_contract) ==
    [i \in 1..Len(raw) |->
        IF Contract_unpack(raw[i]).contract_id = contract_id
        THEN Contract_pack(new_contract)
        ELSE raw[i]]

Contract_changed(raw, contract_id) ==
    \E i \in 1..Len(raw) : Contract_unpack(raw[i]).contract_id = contract_id

ContractRepository_update(f, contract_id, new_contract) ==
    LET raw == read_all_raw(f, CONTRACTS_DAT, CONTRACT_RECORD_SIZE)
        changed == Contract_changed(raw, contract_id)
    IN  [fs |-> IF changed
                THEN overwrite_all_raw(f, CONTRACTS_DAT,
                                       Contract_update_out(raw, contract_id, new_contract))
                ELSE f,
         ret |-> changed]

(***************************************************************************)
(* The repository API driven by a caller, one call per step.               *)
(* call is the last call made ([op, id, e]) and ret what it returned.      *)
(***************************************************************************)
\* the most records a file of the model grows to
MaxRecords == 2

STR_C1 == <<67, 49>>

STR_C2 == <<67, 50>>

\* "C1 ": an id with a trailing space
STR_C1_space == <<67, 49, 32>>

STR_AB1234 == <<65, 66, 49, 50, 51, 52>>

\* "12345678 " followed by U+0E01, 12 bytes of UTF-8: cut inside the last character
STR_plate_cut == <<49, 50, 51, 52, 53, 54, 55, 56, 32, 3585>>

STR_Toyota == <<84, 111, 121, 111, 116, 97>>

STR_Camry == <<67, 97, 109, 114, 121>>

SampleCar(car_id, plate) ==
    Car(car_id, plate, STR_Toyota, STR_Camry, 2023, float(2500), STR_Active, STR_No)

\* the entities callers pass to add and update
SampleCars ==
    {SampleCar(STR_C1, STR_AB1234), SampleCar(STR_C2, STR_AB1234),
     SampleCar(STR_C1_space, STR_AB1234), SampleCar(STR_C2, STR_plate_cut)}

\* a smaller choice of entities, for the specifications with more state per call
FewCars == {SampleCar(STR_C1, STR_plate_cut), SampleCar(STR_C2, STR_AB1234)}

\* the ids callers pass to update and mark_deleted
SampleCarIds == {STR_C1, STR_C2, STR_C1_space}

NoCar == Car(<<>>, <<>>, <<>>, <<>>, 0, float(0), <<>>, <<>>)

NoCall == [op |-> "none", id |-> <<>>, e |-> NoCar]

NoJob == [filename |-> CARS_DAT, records |-> <<>>, pre |-> <<>>, n |-> 0]

NoInput == [s |-> <<>>, length |-> 0]

NoOutput == [stage |-> "none", b |-> <<>>, s |-> <<>>, packed |-> <<>>, unpacked |-> <<>>]

\* no read of a file is in progress; n counts the reads done so far, last is the
\* list the latest of them returned and path the file it read
NoReader ==
    [pc |-> "idle", path |-> CARS_DAT, pos |-> 0, blocks |-> <<>>,
     unlinked |-> FALSE, file |-> <<>>, n |-> 0, last |-> <<>>]

\* the processes that run the program on the same files
Invokers == {1, 2}

NoInvokers ==
    [i \in Invokers |-> [pc |-> "idle", op |-> "none", id |-> <<>>, e |-> NoCar,
                         out |-> <<>>, ret |-> FALSE]]

\* menu(): the three repositories are constructed, no file existing before
EmptyStores ==
    ensure_exists(ensure_exists(ensure_exists(<<>>, CARS_DAT), CUSTOMERS_DAT),
                  CONTRACTS_DAT)

Init ==
    /\ fs = EmptyStores
    /\ call = NoCall
    /\ ret = FALSE
    /\ pc = "idle"
    /\ job = NoJob
    /\ cin = NoInput
    /\ cout = NoOutput
    /\ rd = NoReader
    /\ handles = {}
    /\ inv = NoInvokers
    /\ raced = FALSE

\* the records of the vehicles file, as a read sees them
CarBlocks(f) == iterate_raw(f, CARS_DAT, CAR_RECORD_SIZE)

CarAdd(car) ==
    /\ pc = "idle"
    /\ Len(CarBlocks(fs)) < MaxRecords
    /\ LET r == CarRepository_add(fs, car)
       IN  fs' = r.fs /\ ret' = r.ret
    /\ call' = [op |-> "add", id |-> car.car_id, e |-> car]
    /\ UNCHANGED <<pc, job, cin, cout, rd, handles, inv, raced>>

CarUpdate(car_id, new_car) ==
    /\ pc = "idle"
    /\ LET r == CarRepository_update(fs, car_id, new_car)
       IN  fs' = r.fs /\ ret' = r.ret
    /\ call' = [op |-> "update", id |-> car_id, e |-> new_car]
    /\ UNCHANGED <<pc, job, cin, cout, rd, handles, inv, raced>>

CarMarkDeleted(car_id) ==
    /\ pc = "idle"
    /\ LET r == CarRepository_mark_deleted(fs, car_id)
       IN  fs' = r.fs /\ ret' = r.ret
    /\ call' = [op |-> "mark_deleted", id |-> car_id, e |-> NoCar]
    /\ UNCHANGED <<pc, job, cin, cout, rd, handles, inv, raced>>

Next ==
    \/ \E car \in SampleCars : CarAdd(car)
    \/ \E car_id \in SampleCarIds, new_car \in SampleCars : CarUpdate(car_id, new_car)
    \/ \E car_id \in SampleCarIds : CarMarkDeleted(car_id)

Spec == Init /\ [][Next]_vars

(***************************************************************************)
(* Claims about the vehicle repository, checked under Spec.                *)
(***************************************************************************)
CustomerBlocks(f) == iterate_raw(f, CUSTOMERS_DAT, CUST_RECORD_SIZE)

\* C1: in every state reached from the empty stores by add, update, mark_deleted
\* and hard-delete calls, no two records of one file decode to the same identity.
C1_IdentityUnique ==
    /\ \A i, j \in 1..Len(CarBlocks(fs)) :
          i # j => Car_unpack(CarBlocks(fs)[i]).car_id # Car_unpack(CarBlocks(fs)[j]).car_id
    /\ \A i, j \in 1..Len(CustomerBlocks(fs)) :
          i # j => Customer_unpack(CustomerBlocks(fs)[i]).cust_id
                   # Customer_unpack(CustomerBlocks(fs)[j]).cust_id

\* C2: when add(e) has returned True, an add of an entity with the same identity
\* made right after it returns False and leaves the number of records as it was.
C2_SecondAddFails ==
    [][(call.op = "add" /\ ret = TRUE /\ call'.op = "add" /\ call'.id = call.id)
       => (ret' = FALSE /\ Len(CarBlocks(fs')) = Len(CarBlocks(fs)))]_vars

\* C3: update(id, e) with an id the store holds returns True and leaves the same
\* number of records in the same order; one record, which carried the id, now is
\* the encoding of e and every other record keeps its bytes.
C3_UpdateOnlyTarget ==
    [][(call'.op = "update"
        /\ \E k \in 1..Len(CarBlocks(fs)) : Car_unpack(CarBlocks(fs)[k]).car_id = call'.id)
       => LET old == CarBlocks(fs)
              new == CarBlocks(fs')
          IN  /\ ret' = TRUE
              /\ Len(new) = Len(old)
              /\ \E k \in 1..Len(old) :
                    /\ Car_unpack(old[k]).car_id = call'.id
                    /\ new[k] = Car_pack(call'.e)
                    /\ \A j \in 1..Len(old) : j # k => new[j] = old[j]]_vars

\* C5: mark_deleted(id) on a vehicle the store holds keeps the number and order of
\* the records, sets the status of the vehicle to 'Deleted', keeps every other
\* field of it and keeps every other record.
C5_SoftDeleteOnlyStatus ==
    [][(call'.op = "mark_deleted"
        /\ \E k \in 1..Len(CarBlocks(fs)) : Car_unpack(CarBlocks(fs)[k]).car_id = call'.id)
       => LET old == CarBlocks(fs)
              new == CarBlocks(fs')
          IN  /\ ret' = TRUE
              /\ Len(new) = Len(old)
              /\ \A k \in 1..Len(old) :
                    IF Car_unpack(old[k]).car_id = call'.id
                    THEN Car_unpack(new[k])
                         = [Car_unpack(old[k]) EXCEPT !.status = STR_Deleted]
                    ELSE new[k] = old[k]]_vars

(***************************************************************************)
(* The customer repository and the menu's physical removal, from the       *)
(* empty stores.                                                           *)
(***************************************************************************)
STR_U1 == <<85, 49>>

STR_U2 == <<85, 50>>

\* "U1 ": an id with a trailing space
STR_U1_space == <<85, 49, 32>>

STR_Ann == <<65, 110, 110>>

STR_Bob == <<66, 111, 98>>

STR_id_card == <<49, 50, 51, 52, 53, 54, 55, 56, 57, 48, 49, 50, 51>>

STR_phone == <<48, 56, 49, 45, 50, 51, 52>>

STR_email == <<97, 64, 101, 46, 99, 111>>

SampleCustomer(cust_id, name) ==
    Customer(cust_id, name, STR_id_card, STR_phone, STR_email)

SampleCustomers ==
    {SampleCustomer(STR_U1, STR_Ann), SampleCustomer(STR_U2, STR_Ann),
     SampleCustomer(STR_U1_space, STR_Ann), SampleCustomer(STR_U2, STR_Bob)}

\* the ids passed to update
SampleCustomerIds == {STR_U1, STR_U2, STR_U1_space}

\* what input_nonempty(prompt, 10) hands to delete_customer: stripped, not empty,
\* at most 10 bytes
MenuCustomerIds == {STR_U1, STR_U2}

CustAdd(cust) ==
    /\ pc = "idle"
    /\ Len(CustomerBlocks(fs)) < MaxRecords
    /\ LET r == CustomerRepository_add(fs, cust)
       IN  fs' = r.fs /\ ret' = r.ret
    /\ call' = [op |-> "add", id |-> cust.cust_id, e |-> cust]
    /\ UNCHANGED <<pc, job, cin, cout, rd, handles, inv, raced>>

CustUpdate(cust_id, new_cust) ==
    /\ pc = "idle"
    /\ LET r == CustomerRepository_update(fs, cust_id, new_cust)
       IN  fs' = r.fs /\ ret' = r.ret
    /\ call' = [op |-> "update", id |-> cust_id, e |-> new_cust]
    /\ UNCHANGED <<pc, job, cin, cout, rd, handles, inv, raced>>

DeleteCustomer(cid) ==
    /\ pc = "idle"
    /\ LET r == delete_customer(fs, cid)
       IN  fs' = r.fs /\ ret' = r.ret
    /\ call' = [op |-> "delete", id |-> cid, e |-> NoCar]
    /\ UNCHANGED <<pc, job, cin, cout, rd, handles, inv, raced>>

NextCustomer ==
    \/ \E cust \in SampleCustomers : CustAdd(cust)
    \/ \E cust_id \in SampleCustomerIds, new_cust \in SampleCustomers :
          CustUpdate(cust_id, new_cust)
    \/ \E cid \in MenuCustomerIds : DeleteCustomer(cid)

SpecCustomer == Init /\ [][NextCustomer]_vars

RemoveAt(q, k) == SubSeq(q, 1, k - 1) \o SubSeq(q, k + 1, Len(q))

\* C4: deleting a customer id the store holds leaves one record fewer, the others
\* byte-identical and in their order; deleting an id it does not hold changes
\* nothing and reports not-found.
C4_HardDeleteExactlyOne ==
    [][call'.op = "delete"
       => LET old == CustomerBlocks(fs)
              new == CustomerBlocks(fs')
          IN  IF \E k \in 1..Len(old) : Customer_unpack(old[k]).cust_id = call'.id
              THEN /\ ret' = TRUE
                   /\ Len(new) = Len(old) - 1
                   /\ \E k \in 1..Len(old) :
                         /\ Customer_unpack(old[k]).cust_id = call'.id
                         /\ new = RemoveAt(old, k)
              ELSE ret' = FALSE /\ fs' = fs]_vars

(***************************************************************************)
(* The vehicle repository constructed on a file that exists already,       *)
(* possibly ending in a partial block.                                     *)
(***************************************************************************)
\* one byte, 'x', short of a record
PartialBlock == <<120>>

ExistingCarFiles ==
    {PartialBlock,
     Car_pack(SampleCar(STR_C1, STR_AB1234)),
     Car_pack(SampleCar(STR_C1, STR_AB1234)) \o PartialBlock}

InitExisting ==
    /\ \E content \in ExistingCarFiles :
          fs = ensure_exists(ensure_exists(ensure_exists(
                   [p \in {CARS_DAT} |-> content], CARS_DAT), CUSTOMERS_DAT),
                   CONTRACTS_DAT)
    /\ call = NoCall
    /\ ret = FALSE
    /\ pc = "idle"
    /\ job = NoJob
    /\ cin = NoInput
    /\ cout = NoOutput
    /\ rd = NoReader
    /\ handles = {}
    /\ inv = NoInvokers
    /\ raced = FALSE

NextExisting ==
    \/ \E car \in FewCars : CarAdd(car)
    \/ \E car_id \in SampleCarIds, new_car \in FewCars : CarUpdate(car_id, new_car)
    \/ \E car_id \in SampleCarIds : CarMarkDeleted(car_id)

SpecExisting == InitExisting /\ [][NextExisting]_vars

\* C7: update(id, e) and mark_deleted(id) with an id no record carries return
\* False and leave every file, the trailing partial block included, as it was
\* (no temporary file is written, nothing is renamed).
C7_NotFoundNoEffect ==
    [][(call'.op \in {"update", "mark_deleted"}
        /\ ~\E k \in 1..Len(CarBlocks(fs)) : Car_unpack(CarBlocks(fs)[k]).car_id = call'.id)
       => (ret' = FALSE /\ fs' = fs)]_vars

C7_Witness ==
    /\ call.op \in {"update", "mark_deleted"}
    /\ ret = FALSE
    /\ Len(CarBlocks(fs)) > 0
    /\ Len(fs[CARS_DAT]) % CAR_RECORD_SIZE # 0

\* C8: add(e) returns False and writes nothing when find(e.id) returns a match;
\* otherwise it returns True and the file is the old content followed by the
\* one record-size block that encodes e.
C8_AddFailsIffFound ==
    [][call'.op = "add"
       => IF CarRepository_find(fs, call'.id) # None
          THEN ret' = FALSE /\ fs' = fs
          ELSE /\ ret' = TRUE
               /\ Len(Car_pack(call'.e)) = CAR_RECORD_SIZE
               /\ fs' = [fs EXCEPT ![CARS_DAT] = @ \o Car_pack(call'.e)]]_vars

C8_Witness ==
    /\ call.op = "add"
    /\ ret = FALSE
    /\ CarRepository_find(fs, call.id) # None

(***************************************************************************)
(* overwrite_all_raw statement by statement, with an I/O error possible at *)
(* each statement.  job is the running call: the path, the records to      *)
(* write, the content of the path when the call began, and the number of    *)
(* records written so far.  Writes reach the temporary file at once.       *)
(***************************************************************************)
\* open(path, mode): the handle the process holds from then on
open_handle(h, by, path) == h \cup {[by |-> by, path |-> path]}

\* a variant in which leaving the block does not close the file
with_exit_leak(h, by, path) == h

\* the end of a with block, reached normally or by an exception: the file is closed
with_exit(h, by, path) == h \ {[by |-> by, path |-> path]}

\* os.replace(tmp, dst) while a reader has dst open: the reader's handle keeps
\* the file it opened, which no path names any more
keep_open_file(r, f, dst) ==
    IF r.pc = "reading" /\ r.path = dst /\ ~r.unlinked
    THEN [r EXCEPT !.unlinked = TRUE, !.file = f[dst]]
    ELSE r

InitRewrite ==
    /\ fs = [EmptyStores EXCEPT
                ![CARS_DAT] = Car_pack(SampleCar(STR_C1, STR_AB1234))
                              \o Car_pack(SampleCar(STR_C2, STR_AB1234))]
    /\ call = NoCall
    /\ ret = FALSE
    /\ pc = "idle"
    /\ job = NoJob
    /\ cin = NoInput
    /\ cout = NoOutput
    /\ rd = NoReader
    /\ handles = {}
    /\ inv = NoInvokers
    /\ raced = FALSE

\* the caller is between calls: the last one returned, or raised and was caught
Returned == pc \in {"idle", "raised"}

\* update up to its call of overwrite_all_raw; without a match it returns False
BeginUpdate(car_id, new_car) ==
    /\ Returned
    /\ LET raw == read_all_raw(fs, CARS_DAT, CAR_RECORD_SIZE)
       IN  IF Car_changed(raw, car_id)
           THEN /\ job' = [filename |-> CARS_DAT,
                           records |-> Car_update_out(raw, car_id, new_car),
                           pre |-> fs[CARS_DAT], n |-> 0]
                /\ pc' = "open"
                /\ UNCHANGED ret
           ELSE /\ pc' = "idle"
                /\ ret' = FALSE
                /\ UNCHANGED job
    /\ call' = [op |-> "update", id |-> car_id, e |-> new_car]
    /\ UNCHANGED <<fs, cin, cout, rd, handles, inv, raced>>

\* mark_deleted up to its call of overwrite_all_raw
BeginMarkDeleted(car_id) ==
    /\ Returned
    /\ LET raw == read_all_raw(fs, CARS_DAT, CAR_RECORD_SIZE)
       IN  IF Car_changed(raw, car_id)
           THEN /\ job' = [filename |-> CARS_DAT,
                           records |-> Car_deleted_out(raw, car_id),
                           pre |-> fs[CARS_DAT], n |-> 0]
                /\ pc' = "open"
                /\ UNCHANGED ret
           ELSE /\ pc' = "idle"
                /\ ret' = FALSE
                /\ UNCHANGED job
    /\ call' = [op |-> "mark_deleted", id |-> car_id, e |-> NoCar]
    /\ UNCHANGED <<fs, cin, cout, rd, handles, inv, raced>>

\* with open(tmp, 'wb') as f
OpenTmp ==
    /\ pc = "open"
    /\ fs' = open_wb(fs, tmp_name(job.filename))
    /\ handles' = open_handle(handles, "writer", tmp_name(job.filename))
    /\ pc' = "write"
    /\ UNCHANGED <<call, ret, job, cin, cout, rd, inv, raced>>

\* for r in records: f.write(r)
WriteRecord ==
    /\ pc = "write"
    /\ job.n < Len(job.records)
    /\ fs' = write_block(fs, tmp_name(job.filename), job.records[job.n + 1])
    /\ job' = [job EXCEPT !.n = @ + 1]
    /\ UNCHANGED <<call, ret, pc, cin, cout, rd, handles, inv, raced>>

\* the with block ends: the handle is closed
CloseTmp ==
    /\ pc = "write"
    /\ job.n = Len(job.records)
    /\ handles' = with_exit(handles, "writer", tmp_name(job.filename))
    /\ pc' = "replace"
    /\ UNCHANGED <<fs, call, ret, job, cin, cout, rd, inv, raced>>

\* os.replace(tmp, self.filename), after which the method returns changed = True
Replace ==
    /\ pc = "replace"
    /\ fs' = os_replace(fs, tmp_name(job.filename), job.filename)
    /\ rd' = keep_open_file(rd, fs, job.filename)
    /\ pc' = "idle"
    /\ ret' = TRUE
    /\ UNCHANGED <<call, job, cin, cout, handles, inv, raced>>

\* the bytes of a record that reach the file when its write fails
PartialWrites == {0, 40}

\* an OSError at open, at a write (part of the record may be written), at close
\* or at the rename: it propagates out of the method, through the with block
\* if the file was opened
Fail ==
    /\ \/ /\ pc = "open"
          /\ UNCHANGED <<fs, handles>>
       \/ /\ pc = "write"
          /\ job.n < Len(job.records)
          /\ \E k \in PartialWrites :
                fs' = write_block(fs, tmp_name(job.filename),
                                  Take(job.records[job.n + 1], k))
          /\ handles' = with_exit(handles, "writer", tmp_name(job.filename))
       \/ /\ pc = "write"
          /\ job.n = Len(job.records)
          /\ handles' = with_exit(handles, "writer", tmp_name(job.filename))
          /\ UNCHANGED fs
       \/ /\ pc = "replace"
          /\ UNCHANGED <<fs, handles>>
    /\ pc' = "raised"
    /\ UNCHANGED <<call, ret, job, cin, cout, rd, inv, raced>>

NextRewrite ==
    \/ \E car_id \in SampleCarIds, new_car \in FewCars : BeginUpdate(car_id, new_car)
    \/ \E car_id \in SampleCarIds : BeginMarkDeleted(car_id)
    \/ OpenTmp
    \/ WriteRecord
    \/ CloseTmp
    \/ Replace
    \/ Fail

SpecRewrite == InitRewrite /\ [][NextRewrite]_vars

\* C6: while a rewrite has not done its rename, and after it failed, the content
\* read from the store path is the content from before the operation.
C6_AtomicUnderFailure ==
    pc \in {"open", "write", "replace", "raised"} => fs[job.filename] = job.pre

C6_Witness ==
    /\ pc = "raised"
    /\ job.n > 0
    /\ job.n < Len(job.records)
    /\ Flatten(job.records) # job.pre
    /\ fs[job.filename] = job.pre

(***************************************************************************)
(* The codec on its own: a text value and a field width are drawn, then    *)
(* encoded and decoded; the entities carrying the value are packed and     *)
(* unpacked.                                                               *)
(***************************************************************************)
\* the longest text value drawn, in characters
MaxStrLen == 3

\* 'a', space, U+00E9 (2 bytes of UTF-8), U+0E01 (3 bytes)
Alphabet == {97, 32, 233, 3585}

Strings == UNION {[1..n -> Alphabet] : n \in 0..MaxStrLen}

\* the lengths the source passes to fixed_bytes
FieldWidths == {3, 10, 13, 15, 20, 30, 50}

ByteLen(s) == Len(utf8_encode(s))

\* s where a field of the width holds it, the empty string elsewhere
Fit(s, width) == IF ByteLen(s) <= width THEN s ELSE <<>>

\* entities whose fields are all within their widths
CarOf(s) ==
    Car(Fit(s, 10), Fit(s, 10), Fit(s, 20), Fit(s, 30), 2023, float(2500),
        Fit(s, 10), Fit(s, 3))

CustomerOf(s) == Customer(Fit(s, 10), Fit(s, 50), Fit(s, 13), Fit(s, 15), Fit(s, 50))

ContractOf(s) ==
    Contract(Fit(s, 10), Fit(s, 10), Fit(s, 10), Fit(s, 10), Fit(s, 10),
             float(15000), Fit(s, 10))

InitCodec ==
    /\ fs = EmptyStores
    /\ call = NoCall
    /\ ret = FALSE
    /\ pc = "idle"
    /\ job = NoJob
    /\ cin \in [s : Strings, length : FieldWidths]
    /\ cout = NoOutput
    /\ rd = NoReader
    /\ handles = {}
    /\ inv = NoInvokers
    /\ raced = FALSE

Encode ==
    /\ cout.stage = "none"
    /\ cout' = [cout EXCEPT !.stage = "encoded", !.b = fixed_bytes(cin.s, cin.length)]
    /\ UNCHANGED <<fs, call, ret, pc, job, cin, rd, handles, inv, raced>>

Decode ==
    /\ cout.stage = "encoded"
    /\ cout' = [cout EXCEPT !.stage = "decoded", !.s = bytes_to_str(cout.b)]
    /\ UNCHANGED <<fs, call, ret, pc, job, cin, rd, handles, inv, raced>>

PackEntities ==
    /\ cout.stage = "none"
    /\ cout' = [cout EXCEPT !.stage = "packed",
                            !.packed = <<Car_pack(CarOf(cin.s)),
                                         Customer_pack(CustomerOf(cin.s)),
                                         Contract_pack(ContractOf(cin.s))>>]
    /\ UNCHANGED <<fs, call, ret, pc, job, cin, rd, handles, inv, raced>>

UnpackEntities ==
    /\ cout.stage = "packed"
    /\ cout' = [cout EXCEPT !.stage = "unpacked",
                            !.unpacked = <<Car_unpack(cout.packed[1]),
                                           Customer_unpack(cout.packed[2]),
                                           Contract_unpack(cout.packed[3])>>]
    /\ UNCHANGED <<fs, call, ret, pc, job, cin, rd, handles, inv, raced>>

NextCodec == Encode \/ Decode \/ PackEntities \/ UnpackEntities

SpecCodec == InitCodec /\ [][NextCodec]_vars

\* C9 as stated: a text value within its field's width decodes to itself, and an
\* entity whose fields are within their widths unpacks to itself.
C9_RoundTrip ==
    /\ (cout.stage = "decoded" /\ ByteLen(cin.s) <= cin.length) => cout.s = cin.s
    /\ cout.stage = "unpacked"
          => cout.unpacked = <<CarOf(cin.s), CustomerOf(cin.s), ContractOf(cin.s)>>

EndsWithSpace(s) == s # <<>> /\ s[Len(s)] = 32

\* C9 amended: a text value within its field's width that does not end with a
\* space decodes to itself, and an entity whose text fields are such values
\* unpacks to itself.
C9_RoundTripNoTrailingSpace ==
    ~EndsWithSpace(cin.s)
    => /\ (cout.stage = "decoded" /\ ByteLen(cin.s) <= cin.length) => cout.s = cin.s
       /\ cout.stage = "unpacked"
             => cout.unpacked = <<CarOf(cin.s), CustomerOf(cin.s), ContractOf(cin.s)>>

C9_Witness ==
    /\ cout.stage = "decoded"
    /\ ~EndsWithSpace(cin.s)
    /\ ByteLen(cin.s) < cin.length
    /\ \E i \in 1..Len(cin.s) : cin.s[i] = 3585
    /\ \E i \in 1..Len(cin.s) : cin.s[i] = 32
    /\ cout.s = cin.s

\* C10: a string whose encoding is longer than the width w is encoded to the
\* first w bytes of its encoding, and decoding that raises nothing: it gives a str.
C10_TruncationDeterminism ==
    ByteLen(cin.s) > cin.length
    => /\ cout.stage \in {"encoded", "decoded"}
          => /\ Len(cout.b) = cin.length
             /\ cout.b = SubSeq(utf8_encode(cin.s), 1, cin.length)
       /\ cout.stage = "decoded"
          => /\ cout.s # UnicodeDecodeError
             /\ \A i \in 1..Len(cout.s) : cout.s[i] \in 0..1114111

\* the cut fell inside a multi-byte character
C10_Witness ==
    /\ cout.stage = "decoded"
    /\ ByteLen(cin.s) > cin.length
    /\ utf8_decode_strict(rstrip_space(cout.b)) = UnicodeDecodeError
    /\ cout.s # UnicodeDecodeError

(***************************************************************************)
(* The three repositories driven together, one call per step, from the     *)
(* empty files their construction leaves.                                  *)
(***************************************************************************)
STR_K1 == <<75, 49>>

STR_K2 == <<75, 50>>

\* "2024-01-01"
STR_2024_01_01 == <<50, 48, 50, 52, 45, 48, 49, 45, 48, 49>>

\* "2024-01-03"
STR_2024_01_03 == <<50, 48, 50, 52, 45, 48, 49, 45, 48, 51>>

\* the status literals of add_contract and close_contract
STR_active == <<97, 99, 116, 105, 118, 101>>

STR_closed == <<99, 108, 111, 115, 101, 100>>

SampleContract(contract_id, status) ==
    Contract(contract_id, STR_C1, STR_U1, STR_2024_01_01, STR_2024_01_03,
             float(7500), status)

SampleContracts ==
    {SampleContract(STR_K1, STR_active), SampleContract(STR_K2, STR_active),
     SampleContract(STR_K1, STR_closed)}

SampleContractIds == {STR_K1, STR_K2}

FewCustomers == {SampleCustomer(STR_U1, STR_Ann), SampleCustomer(STR_U2, STR_Bob)}

ContractBlocks(f) == iterate_raw(f, CONTRACTS_DAT, CONTRACT_RECORD_SIZE)

ContractAdd(contract) ==
    /\ pc = "idle"
    /\ Len(ContractBlocks(fs)) < MaxRecords
    /\ LET r == ContractRepository_add(fs, contract)
       IN  fs' = r.fs /\ ret' = r.ret
    /\ call' = [op |-> "add", id |-> contract.contract_id, e |-> contract]
    /\ UNCHANGED <<pc, job, cin, cout, rd, handles, inv, raced>>

ContractUpdate(contract_id, new_contract) ==
    /\ pc = "idle"
    /\ LET r == ContractRepository_update(fs, contract_id, new_contract)
       IN  fs' = r.fs /\ ret' = r.ret
    /\ call' = [op |-> "update", id |-> contract_id, e |-> new_contract]
    /\ UNCHANGED <<pc, job, cin, cout, rd, handles, inv, raced>>

\* the records the three files hold together
TotalRecords(f) ==
    Len(CarBlocks(f)) + Len(CustomerBlocks(f)) + Len(ContractBlocks(f))

NextStores ==
    \/ \E car \in FewCars : TotalRecords(fs) < MaxRecords /\ CarAdd(car)
    \/ \E car_id \in SampleCarIds, new_car \in FewCars : CarUpdate(car_id, new_car)
    \/ \E car_id \in SampleCarIds : CarMarkDeleted(car_id)
    \/ \E cust \in FewCustomers : TotalRecords(fs) < MaxRecords /\ CustAdd(cust)
    \/ \E cust_id \in MenuCustomerIds, new_cust \in FewCustomers :
          CustUpdate(cust_id, new_cust)
    \/ \E cid \in MenuCustomerIds : DeleteCustomer(cid)
    \/ \E contract \in SampleContracts :
          TotalRecords(fs) < MaxRecords /\ ContractAdd(contract)
    \/ \E contract_id \in SampleContractIds, new_contract \in SampleContracts :
          ContractUpdate(contract_id, new_contract)

SpecStores == Init /\ [][NextStores]_vars

\* C11: after any sequence of completed add, update, mark_deleted and hard-delete
\* calls from the empty files, the length of each file is a multiple of its
\* record size: 95 for vehicles, 138 for customers, 68 for contracts.
C11_Alignment ==
    /\ Len(fs[CARS_DAT]) % CAR_RECORD_SIZE = 0
    /\ Len(fs[CUSTOMERS_DAT]) % CUST_RECORD_SIZE = 0
    /\ Len(fs[CONTRACTS_DAT]) % CONTRACT_RECORD_SIZE = 0

\* two of the files hold a record and the last call rewrote one of them
C11_Witness ==
    /\ Cardinality({p \in {CARS_DAT, CUSTOMERS_DAT, CONTRACTS_DAT} : fs[p] # <<>>}) = 2
    /\ call.op \in {"update", "mark_deleted", "delete"}
    /\ ret = TRUE

(***************************************************************************)
(* Claims about all and find after an add, checked under Spec.             *)
(***************************************************************************)
\* C12: when add(e) returns True, all() afterwards is all() from before followed
\* by one entity equal to e, and find(e.car_id) returns an entity equal to e.
C12_AddVisible ==
    [][(call'.op = "add" /\ ret' = TRUE)
       => /\ CarRepository_all(fs') = Append(CarRepository_all(fs), call'.e)
          /\ CarRepository_find(fs', call'.e.car_id) = call'.e]_vars

\* a text value that fits its field and does not end with a space
FitsField(s, width) == ByteLen(s) <= width /\ ~EndsWithSpace(s)

\* every text field of the vehicle fits the field it is packed into
CarFitsRecord(car) ==
    /\ FitsField(car.car_id, 10)
    /\ FitsField(car.plate, 10)
    /\ FitsField(car.brand, 20)
    /\ FitsField(car.model, 30)
    /\ FitsField(car.status, 10)
    /\ FitsField(car.rented, 3)

\* C12 amended: the same, for an entity whose text fields each fit their field
\* width in UTF-8 bytes and do not end with a space.
C12_AddVisibleWhenFits ==
    [][(call'.op = "add" /\ ret' = TRUE /\ CarFitsRecord(call'.e))
       => /\ CarRepository_all(fs') = Append(CarRepository_all(fs), call'.e)
          /\ CarRepository_find(fs', call'.e.car_id) = call'.e]_vars

\* a fitting vehicle was added behind an earlier record
C12_Witness ==
    /\ call.op = "add"
    /\ ret = TRUE
    /\ CarFitsRecord(call.e)
    /\ Len(CarRepository_all(fs)) = 2
    /\ CarRepository_all(fs)[2] = call.e
    /\ CarRepository_find(fs, call.e.car_id) = call.e

(***************************************************************************)
(* iterate_raw statement by statement, run by a reader while a rewrite of   *)
(* the same file is in progress.  rd is the reader's handle: the path it   *)
(* opened, its position, the blocks it has yielded; once the path is       *)
(* replaced the handle stays on the file it opened (unlinked, file).       *)
(***************************************************************************)
\* the most reads the reader does
MaxReads == 2

\* open(self.filename, 'rb'): a new handle, at the start of the file
open_rb(r, filename) ==
    [pc |-> "reading", path |-> filename, pos |-> 0, blocks |-> <<>>,
     unlinked |-> FALSE, file |-> <<>>, n |-> r.n, last |-> r.last]

\* the content of the file the reader's handle is on
ReaderFile == IF rd.unlinked THEN rd.file ELSE fs[rd.path]

\* f.read(n) at position pos
file_read(content, pos, n) == SubSeq(content, pos + 1, Min(pos + n, Len(content)))

\* a variant that stops only at the end of the file
read_ends_at_eof(b, recsize) == b = <<>>

\* if not b or len(b) < self.recsize: break
read_ends(b, recsize) == b = <<>> \/ Len(b) < recsize

\* with open(self.filename, 'rb') as f
ReaderOpen(filename) ==
    /\ rd.pc = "idle"
    /\ rd.n < MaxReads
    /\ rd' = open_rb(rd, filename)
    /\ handles' = open_handle(handles, "reader", filename)
    /\ UNCHANGED <<fs, call, ret, pc, job, cin, cout, inv, raced>>

\* b = f.read(self.recsize); if not b or len(b) < self.recsize: break; yield b
ReaderRead(recsize) ==
    /\ rd.pc = "reading"
    /\ LET b == file_read(ReaderFile, rd.pos, recsize)
       IN  IF read_ends(b, recsize)
           THEN /\ rd' = [rd EXCEPT !.pc = "done", !.pos = @ + Len(b)]
                /\ handles' = with_exit(handles, "reader", rd.path)
           ELSE /\ rd' = [rd EXCEPT !.pos = @ + Len(b), !.blocks = Append(@, b)]
                /\ UNCHANGED handles
    /\ UNCHANGED <<fs, call, ret, pc, job, cin, cout, inv, raced>>

\* the caller has the list, or the exception; the generator is gone
ReaderReturn ==
    /\ rd.pc \in {"done", "raised"}
    /\ rd' = [NoReader EXCEPT !.n = rd.n + 1, !.path = rd.path,
                              !.last = IF rd.pc = "done" THEN rd.blocks ELSE rd.last]
    /\ UNCHANGED <<fs, call, ret, pc, job, cin, cout, handles, inv, raced>>

\* one rewrite at a time is read across: no call begins during a read
NextRead ==
    \/ \E new_car \in FewCars : rd.pc = "idle" /\ BeginUpdate(STR_C1, new_car)
    \/ rd.pc = "idle" /\ BeginMarkDeleted(STR_C2)
    \/ OpenTmp
    \/ WriteRecord
    \/ CloseTmp
    \/ Replace
    \/ ReaderOpen(CARS_DAT)
    \/ ReaderRead(CAR_RECORD_SIZE)
    \/ ReaderReturn

SpecRead == InitRewrite /\ [][NextRead]_vars

\* C13: a read of the store path interleaved with one overwrite_all_raw call
\* yields the complete block sequence from before the call or the complete new
\* one, never a prefix or a mixture.
C13_ReaderSeesOldOrNew ==
    (rd.pc = "done" /\ job # NoJob)
    => \/ rd.blocks = read_blocks(job.pre, 0, CAR_RECORD_SIZE)
       \/ rd.blocks = job.records

\* the reader opened the old file, the rename came during its read, and the
\* old and the new content differ
C13_Witness ==
    /\ rd.pc = "done"
    /\ rd.unlinked
    /\ rd.blocks = read_blocks(job.pre, 0, CAR_RECORD_SIZE)
    /\ rd.blocks # job.records
    /\ fs[CARS_DAT] = Flatten(job.records)

(***************************************************************************)
(* Two invokers on the same vehicles file.  Each runs add, update and      *)
(* mark_deleted as the code does: a read of the file, then a write, with   *)
(* no lock between them, so the other invoker's steps may come in between.  *)
(* inv[i] is invoker i's running or last call; raced records that a step   *)
(* was taken while the other invoker was inside a call.                    *)
(***************************************************************************)
STR_C3 == <<67, 51>>

\* the vehicle both invokers add
NewCar == SampleCar(STR_C3, STR_AB1234)

\* the vehicle C1 with another price, as update_car builds it
RepricedCar ==
    Car(STR_C1, STR_AB1234, STR_Toyota, STR_Camry, 2023, float(3000), STR_Active, STR_No)

\* another invoker is between the read and the write of a call
Interleaved(i) == \E j \in Invokers \ {i} : inv[j].pc # "idle"

\* add: if self.find(car.car_id): return False
AddCheck(i, car) ==
    /\ inv[i].pc = "idle"
    /\ inv' = [inv EXCEPT ![i] =
                 IF CarRepository_find(fs, car.car_id) # None
                 THEN [pc |-> "idle", op |-> "add", id |-> car.car_id, e |-> car,
                       out |-> <<>>, ret |-> FALSE]
                 ELSE [pc |-> "append", op |-> "add", id |-> car.car_id, e |-> car,
                       out |-> <<>>, ret |-> FALSE]]
    /\ raced' = (raced \/ Interleaved(i))
    /\ UNCHANGED <<fs, call, ret, pc, job, cin, cout, rd, handles>>

\* add: with open(self.filename, 'ab') as f: f.write(car.pack()); return True
AddAppend(i) ==
    /\ inv[i].pc = "append"
    /\ fs' = append_raw(fs, CARS_DAT, Car_pack(inv[i].e))
    /\ inv' = [inv EXCEPT ![i].pc = "idle", ![i].ret = TRUE]
    /\ raced' = (raced \/ Interleaved(i))
    /\ UNCHANGED <<call, ret, pc, job, cin, cout, rd, handles>>

\* update up to its call of overwrite_all_raw; without a match it returns False
UpdateRead(i, car_id, new_car) ==
    /\ inv[i].pc = "idle"
    /\ LET raw == read_all_raw(fs, CARS_DAT, CAR_RECORD_SIZE)
       IN  inv' = [inv EXCEPT ![i] =
                     IF Car_changed(raw, car_id)
                     THEN [pc |-> "overwrite", op |-> "update", id |-> car_id,
                           e |-> new_car, out |-> Car_update_out(raw, car_id, new_car),
                           ret |-> FALSE]
                     ELSE [pc |-> "idle", op |-> "update", id |-> car_id,
                           e |-> new_car, out |-> <<>>, ret |-> FALSE]]
    /\ raced' = (raced \/ Interleaved(i))
    /\ UNCHANGED <<fs, call, ret, pc, job, cin, cout, rd, handles>>

\* mark_deleted up to its call of overwrite_all_raw
MarkDeletedRead(i, car_id) ==
    /\ inv[i].pc = "idle"
    /\ LET raw == read_all_raw(fs, CARS_DAT, CAR_RECORD_SIZE)
       IN  inv' = [inv EXCEPT ![i] =
                     IF Car_changed(raw, car_id)
                     THEN [pc |-> "overwrite", op |-> "mark_deleted", id |-> car_id,
                           e |-> NoCar, out |-> Car_deleted_out(raw, car_id),
                           ret |-> FALSE]
                     ELSE [pc |-> "idle", op |-> "mark_deleted", id |-> car_id,
                           e |-> NoCar, out |-> <<>>, ret |-> FALSE]]
    /\ raced' = (raced \/ Interleaved(i))
    /\ UNCHANGED <<fs, call, ret, pc, job, cin, cout, rd, handles>>

\* if changed: self.overwrite_all_raw(out); return changed
Overwrite(i) ==
    /\ inv[i].pc = "overwrite"
    /\ fs' = overwrite_all_raw(fs, CARS_DAT, inv[i].out)
    /\ inv' = [inv EXCEPT ![i].pc = "idle", ![i].out = <<>>, ![i].ret = TRUE]
    /\ raced' = (raced \/ Interleaved(i))
    /\ UNCHANGED <<call, ret, pc, job, cin, cout, rd, handles>>

\* invoker 1 reprices C1, invoker 2 deletes C2, both add C3
NextRace ==
    \/ \E i \in Invokers : AddCheck(i, NewCar)
    \/ \E i \in Invokers : AddAppend(i)
    \/ UpdateRead(1, STR_C1, RepricedCar)
    \/ MarkDeletedRead(2, STR_C2)
    \/ \E i \in Invokers : Overwrite(i)

SpecRace == InitRewrite /\ [][NextRace]_vars

\* invoker i's last call was a mutation reported as done that the file lacks
LostUpdate(i) ==
    /\ inv[i].pc = "idle"
    /\ inv[i].ret = TRUE
    /\ \/ /\ inv[i].op = "update"
          /\ CarRepository_find(fs, inv[i].id) # inv[i].e
       \/ /\ inv[i].op = "mark_deleted"
          /\ CarRepository_find(fs, inv[i].id) # None
          /\ CarRepository_find(fs, inv[i].id).status # STR_Deleted

\* both invokers' adds of one id returned True and the file holds two such records
DoubleAdd ==
    /\ \A i \in Invokers : inv[i].pc = "idle" /\ inv[i].op = "add" /\ inv[i].ret = TRUE
    /\ inv[1].id = inv[2].id
    /\ Cardinality({k \in 1..Len(CarBlocks(fs)) :
                       Car_unpack(CarBlocks(fs)[k]).car_id = inv[1].id}) = 2

\* C14: a lost update or a double add is reachable with two invokers whose steps
\* interleave (the witness), and is reached in no other way: in every such state
\* a step was taken while the other invoker was between its read and its write.
C14_RaceNeedsInterleaving ==
    ((\E i \in Invokers : LostUpdate(i)) \/ DoubleAdd) => raced

\* invoker 1's update returned True and the file holds C1 at its old price
C14_Witness ==
    /\ LostUpdate(1)
    /\ inv[1].op = "update"
    /\ inv[2].op = "mark_deleted"
    /\ inv[2].ret = TRUE
    /\ raced

\* the other outcome C14 names
C14_DoubleAddReached == DoubleAdd /\ raced

StoreFiles == {CARS_DAT, CUSTOMERS_DAT, CONTRACTS_DAT}

\* what a file found at construction may hold
ExistingContents == {<<>>, PartialBlock, Car_pack(SampleCar(STR_C1, STR_AB1234))}

InitConstruct ==
    /\ \E present \in SUBSET StoreFiles : fs \in [present -> ExistingContents]
    /\ call = NoCall
    /\ ret = FALSE
    /\ pc = "idle"
    /\ job = NoJob
    /\ cin = NoInput
    /\ cout = NoOutput
    /\ rd = NoReader
    /\ handles = {}
    /\ inv = NoInvokers
    /\ raced = FALSE

\* CarRepository(), CustomerRepository() or ContractRepository()
Construct(filename) ==
    /\ pc = "idle"
    /\ fs' = ensure_exists(fs, filename)
    /\ call' = [op |-> "construct", id |-> filename, e |-> NoCar]
    /\ UNCHANGED <<ret, pc, job, cin, cout, rd, handles, inv, raced>>

NextConstruct == \E filename \in StoreFiles : Construct(filename)

SpecConstruct == InitConstruct /\ [][NextConstruct]_vars

\* C16: constructing a repository on a path where no file exists creates an
\* empty file, and on a path where a file exists leaves its content as it was;
\* no other file changes.
C16_ConstructionKeepsData ==
    [][call'.op = "construct"
       => /\ DOMAIN fs' = DOMAIN fs \cup {call'.id}
          /\ call'.id \notin DOMAIN fs => fs'[call'.id] = <<>>
          /\ \A p \in DOMAIN fs : fs'[p] = fs[p]]_vars

\* a repository was constructed on a file that holds a record, another on a
\* path that did not exist
C16_Witness ==
    /\ call.op = "construct"
    /\ fs[call.id] = Car_pack(SampleCar(STR_C1, STR_AB1234))
    /\ \E p \in DOMAIN fs : p # call.id /\ fs[p] = <<>>

(***************************************************************************)
(* iterate_raw on files of any length, with no writer: one of the files is *)
(* read, and then read again.                                              *)
(***************************************************************************)
\* the most whole blocks a scanned file holds
MaxBlocks == 2

\* the record size each repository passes to BinaryRepository.__init__
recsize(filename) ==
    CASE filename = CARS_DAT -> CAR_RECORD_SIZE
      [] filename = CUSTOMERS_DAT -> CUST_RECORD_SIZE
      [] filename = CONTRACTS_DAT -> CONTRACT_RECORD_SIZE

\* n bytes, each position with its own value
Bytes(n) == [k \in 1..n |-> k % 251]

\* q whole blocks, and behind them no byte, one byte, or one short of a block
InitScan ==
    /\ \E q \in 0..MaxBlocks, t \in 1..3 :
          fs = [p \in StoreFiles |->
                   Bytes(q * recsize(p)
                         + (CASE t = 1 -> 0 [] t = 2 -> 1 [] t = 3 -> recsize(p) - 1))]
    /\ call = NoCall
    /\ ret = FALSE
    /\ pc = "idle"
    /\ job = NoJob
    /\ cin = NoInput
    /\ cout = NoOutput
    /\ rd = NoReader
    /\ handles = {}
    /\ inv = NoInvokers
    /\ raced = FALSE

NextScan ==
    \/ \E filename \in StoreFiles :
          (rd.n = 0 \/ filename = rd.path) /\ ReaderOpen(filename)
    \/ ReaderRead(recsize(rd.path))
    \/ ReaderReturn

SpecScan == InitScan /\ [][NextScan]_vars

\* bytes [i*R, (i+1)*R) of the content for i = 0 .. floor(L / R) - 1
WholeBlocks(content, R) ==
    [i \in 1..(Len(content) \div R) |-> SubSeq(content, (i - 1) * R + 1, i * R)]

\* C17: a read of a file of length L with record size R ends, without an error,
\* having yielded floor(L / R) blocks, the i-th being bytes [i*R, (i+1)*R) of the
\* file; a second read with no write in between yields the same sequence.
C17_LenientRead ==
    rd.pc = "done"
    => /\ rd.blocks = WholeBlocks(fs[rd.path], recsize(rd.path))
       /\ rd.blocks = iterate_raw(fs, rd.path, recsize(rd.path))
       /\ rd.n >= 1 => rd.blocks = rd.last

\* the second read of a file that ends in a partial block
C17_Witness ==
    /\ rd.pc = "done"
    /\ rd.n = 1
    /\ Len(fs[rd.path]) = 2 * recsize(rd.path) + 1
    /\ Len(rd.blocks) = 2
    /\ rd.last = rd.blocks

(***************************************************************************)
(* find on stores that hold several records of one identity.               *)
(***************************************************************************)
CarFind(car_id) ==
    /\ pc = "idle"
    /\ ret' = CarRepository_find(fs, car_id)
    /\ call' = [op |-> "cars.find", id |-> car_id, e |-> NoCar]
    /\ UNCHANGED <<fs, pc, job, cin, cout, rd, handles, inv, raced>>

CustFind(cust_id) ==
    /\ pc = "idle"
    /\ ret' = CustomerRepository_find(fs, cust_id)
    /\ call' = [op |-> "customers.find", id |-> cust_id, e |-> NoCar]
    /\ UNCHANGED <<fs, pc, job, cin, cout, rd, handles, inv, raced>>

NextFind ==
    \/ \E car \in FewCars : TotalRecords(fs) < MaxRecords /\ CarAdd(car)
    \/ \E car_id \in {STR_C1, STR_C2}, new_car \in FewCars : CarUpdate(car_id, new_car)
    \/ CarMarkDeleted(STR_C2)
    \/ \E car_id \in SampleCarIds : CarFind(car_id)
    \/ \E cust \in FewCustomers : TotalRecords(fs) < MaxRecords /\ CustAdd(cust)
    \/ CustUpdate(STR_U1, SampleCustomer(STR_U2, STR_Ann))
    \/ \E cust_id \in SampleCustomerIds : CustFind(cust_id)

SpecFind == Init /\ [][NextFind]_vars

\* C18: find(id) returns the decoded record of lowest index whose decoded id is
\* id, also when several records carry it, None when there is none, and leaves
\* every file as it was.
C18_FindFirstMatch ==
    [][/\ call'.op = "cars.find"
          => /\ fs' = fs
             /\ LET cs == CarRepository_all(fs)
                IN  IF \A i \in 1..Len(cs) : cs[i].car_id # call'.id
                    THEN ret' = None
                    ELSE \E i \in 1..Len(cs) :
                            /\ cs[i].car_id = call'.id
                            /\ \A j \in 1..(i - 1) : cs[j].car_id # call'.id
                            /\ ret' = cs[i]
       /\ call'.op = "customers.find"
          => /\ fs' = fs
             /\ LET cs == CustomerRepository_all(fs)
                IN  IF \A i \in 1..Len(cs) : cs[i].cust_id # call'.id
                    THEN ret' = None
                    ELSE \E i \in 1..Len(cs) :
                            /\ cs[i].cust_id = call'.id
                            /\ \A j \in 1..(i - 1) : cs[j].cust_id # call'.id
                            /\ ret' = cs[i]]_vars

\* two different records carry the id looked for, and the first was returned
C18_Witness ==
    /\ call.op = "cars.find"
    /\ Len(CarRepository_all(fs)) = 2
    /\ CarRepository_all(fs)[1].car_id = call.id
    /\ CarRepository_all(fs)[2].car_id = call.id
    /\ CarRepository_all(fs)[1] # CarRepository_all(fs)[2]
    /\ ret = CarRepository_all(fs)[1]

(***************************************************************************)
(* The handles one process holds while it runs reads, adds and rewrites    *)
(* one after another, each statement by statement, with an I/O error       *)
(* possible at each.  handles is the set of files the process has open.    *)
(***************************************************************************)
\* an OSError at f.read: it leaves the generator through its with block
ReaderFail ==
    /\ rd.pc = "reading"
    /\ rd' = [rd EXCEPT !.pc = "raised"]
    /\ handles' = with_exit(handles, "reader", rd.path)
    /\ UNCHANGED <<fs, call, ret, pc, job, cin, cout, inv, raced>>

\* add up to its open: if self.find(car.car_id): return False
BeginAdd(car) ==
    /\ Returned
    /\ Len(fs[CARS_DAT]) <= MaxRecords * CAR_RECORD_SIZE
    /\ IF CarRepository_find(fs, car.car_id) # None
       THEN /\ pc' = "idle"
            /\ ret' = FALSE
            /\ UNCHANGED job
       ELSE /\ job' = [filename |-> CARS_DAT, records |-> <<Car_pack(car)>>,
                       pre |-> fs[CARS_DAT], n |-> 0]
            /\ pc' = "append"
            /\ UNCHANGED ret
    /\ call' = [op |-> "add", id |-> car.car_id, e |-> car]
    /\ UNCHANGED <<fs, cin, cout, rd, handles, inv, raced>>

\* with open(self.filename, 'ab') as f
AppendOpen ==
    /\ pc = "append"
    /\ handles' = open_handle(handles, "writer", job.filename)
    /\ pc' = "appending"
    /\ UNCHANGED <<fs, call, ret, job, cin, cout, rd, inv, raced>>

\* f.write(car.pack()), the end of the with block, return True
AppendWrite ==
    /\ pc = "appending"
    /\ fs' = append_raw(fs, job.filename, job.records[1])
    /\ handles' = with_exit(handles, "writer", job.filename)
    /\ job' = [job EXCEPT !.n = 1]
    /\ pc' = "idle"
    /\ ret' = TRUE
    /\ UNCHANGED <<call, cin, cout, rd, inv, raced>>

\* an OSError at the open of add or at its write (part of the record may be
\* written)
AppendFail ==
    /\ \/ /\ pc = "append"
          /\ UNCHANGED <<fs, handles>>
       \/ /\ pc = "appending"
          /\ \E k \in PartialWrites :
                fs' = append_raw(fs, job.filename, Take(job.records[1], k))
          /\ handles' = with_exit(handles, "writer", job.filename)
    /\ pc' = "raised"
    /\ UNCHANGED <<call, ret, job, cin, cout, rd, inv, raced>>

\* one process: calls one after another, and one read of the file between two
\* of them
NextHandles ==
    \/ rd.pc = "idle" /\ BeginAdd(NewCar)
    \/ AppendOpen
    \/ AppendWrite
    \/ AppendFail
    \/ rd.pc = "idle" /\ BeginUpdate(STR_C1, RepricedCar)
    \/ rd.pc = "idle" /\ BeginMarkDeleted(STR_C2)
    \/ OpenTmp
    \/ WriteRecord
    \/ CloseTmp
    \/ Replace
    \/ Fail
    \/ Returned /\ rd.n = 0 /\ ReaderOpen(CARS_DAT)
    \/ ReaderRead(CAR_RECORD_SIZE)
    \/ ReaderFail
    \/ ReaderReturn

SpecHandles == InitRewrite /\ [][NextHandles]_vars

\* C19: when a read, an add or a rewrite has returned or raised, the process
\* holds no handle it opened: between operations no file is open.
C19_NoHandleOutlives ==
    /\ Returned => \A h \in handles : h.by # "writer"
    /\ rd.pc # "reading" => \A h \in handles : h.by # "reader"
    /\ (Returned /\ rd.pc # "reading") => handles = {}

\* a rewrite raised after it had written a record, a read has been done before
C19_Witness ==
    /\ pc = "raised"
    /\ call.op = "update"
    /\ job.n > 0
    /\ rd.pc = "idle"
    /\ rd.n >= 1
    /\ handles = {}

(***************************************************************************)
(* Business logic: dates, and the contract operations of the menu.         *)
(***************************************************************************)
\* str.lower() on the characters the statuses are written with
lower(s) == [i \in 1..Len(s) |-> IF s[i] \in 65..90 THEN s[i] + 32 ELSE s[i]]

\* str.strip() of the blanks at both ends
RECURSIVE strip(_)
strip(s) ==
    IF s = <<>> THEN s
    ELSE IF Head(s) = 32 THEN strip(Tail(s))
    ELSE IF s[Len(s)] = 32 THEN strip(SubSeq(s, 1, Len(s) - 1))
    ELSE s

\* the exception strptime and date() raise
ValueError == -1

IsDigits(s) == \A i \in 1..Len(s) : s[i] \in 48..57

RECURSIVE int(_)
\* int(s) for a string of digits
int(s) == IF s = <<>> THEN 0 ELSE 10 * int(SubSeq(s, 1, Len(s) - 1)) + (s[Len(s)] - 48)

\* %m: 1[0-2] | 0[1-9] | [1-9]
MonthText(s) ==
    /\ Len(s) \in {1, 2}
    /\ IsDigits(s)
    /\ int(s) \in 1..12

\* %d: 3[01] | [12]\d | 0[1-9] | [1-9] | a blank and [1-9]
DayText(s) ==
    \/ Len(s) \in {1, 2} /\ IsDigits(s) /\ int(s) \in 1..31
    \/ Len(s) = 2 /\ s[1] = 32 /\ s[2] \in 49..57

IsLeap(y) == y % 4 = 0 /\ (y % 100 # 0 \/ y % 400 = 0)

DaysInMonth(y, m) ==
    CASE m \in {1, 3, 5, 7, 8, 10, 12} -> 31
      [] m \in {4, 6, 9, 11} -> 30
      [] m = 2 -> IF IsLeap(y) THEN 29 ELSE 28

RECURSIVE DaysBeforeMonth(_, _)
DaysBeforeMonth(y, m) ==
    IF m = 1 THEN 0 ELSE DaysBeforeMonth(y, m - 1) + DaysInMonth(y, m - 1)

\* date(y, m, d).toordinal()
toordinal(y, m, d) ==
    (y - 1) * 365 + (y - 1) \div 4 - (y - 1) \div 100 + (y - 1) \div 400
    + DaysBeforeMonth(y, m) + d

\* datetime.strptime(s, '%Y-%m-%d').date(), as the day's ordinal, or ValueError
parse_date(s) ==
    LET dashes == {i \in 1..Len(s) : s[i] = 45}
    IN  IF Cardinality(dashes) # 2 THEN ValueError
        ELSE LET i1 == CHOOSE i \in dashes : \A j \in dashes : i <= j
                 i2 == CHOOSE i \in dashes : \A j \in dashes : i >= j
                 Y  == SubSeq(s, 1, i1 - 1)
                 M  == SubSeq(s, i1 + 1, i2 - 1)
                 D  == SubSeq(s, i2 + 1, Len(s))
             IN  IF ~(Len(Y) = 4 /\ IsDigits(Y) /\ MonthText(M) /\ DayText(D))
                 THEN ValueError
                 ELSE LET y == int(Y)
                          m == int(M)
                          d == int(strip(D))
                      IN  IF y < 1 \/ d > DaysInMonth(y, m) THEN ValueError
                          ELSE toordinal(y, m, d)

\* a variant that counts the days between the two dates, the last one left out
days_between_exclusive(da, db) ==
    IF db = ValueError \/ da = ValueError THEN ValueError
    ELSE Max(0, db - da)

\* (b - a).days + 1, never below 0, of two parsed dates
days_between(da, db) ==
    IF db = ValueError \/ da = ValueError THEN ValueError
    ELSE Max(0, db - da + 1)

\* max(0, (parse_date(b) - parse_date(a)).days + 1), or the ValueError raised
date_diff_days(a, b) == days_between(parse_date(a), parse_date(b))

\* the integer a float holds, for float(n) of an integer 0 <= n < 2^21
float_int(x) ==
    LET hw == x[1] * 16777216 + x[2] * 65536 + x[3] * 256 + x[4]
        e  == hw \div 1048576 - 1023
    IN  IF hw = 0 THEN 0 ELSE Pow2(e) + (hw % 1048576) \div Pow2(20 - e)

\* days * car.price_per_day, for an integral price and a product below 2^21
int_times_float(days, x) == float(days * float_int(x))

\* 'deleted', 'yes' and 'y', as the menu compares them
STR_deleted == <<100, 101, 108, 101, 116, 101, 100>>

STR_yes == <<121, 101, 115>>

STR_y == <<121>>

\* a variant that lets every vehicle be rented out
car_is_rented_never(car) == FALSE

\* add_contract: car.rented.lower() == 'yes'
car_is_rented(car) == lower(car.rented) = STR_yes

\* add_contract, the end: repo.add(contract), then car.rented = 'Yes' and
\* cars.update
add_contract_save(car_id, car, added) ==
    IF added.ret
    THEN [fs |-> CarRepository_update(added.fs, car_id,
                                      [car EXCEPT !.rented = STR_Yes]).fs,
          ret |-> TRUE]
    ELSE [fs |-> added.fs, ret |-> FALSE]

\* add_contract from the dates on: the days, the estimate, the confirmation
add_contract_days(f, contract_id, car_id, cust_id, start, end, confirm, car, dcount) ==
    IF dcount = ValueError THEN [fs |-> f, ret |-> FALSE]
    ELSE IF lower(strip(confirm)) # STR_y THEN [fs |-> f, ret |-> FALSE]
    ELSE add_contract_save(car_id, car,
            ContractRepository_add(f,
                Contract(contract_id, car_id, cust_id, start, end,
                         int_times_float(dcount, car.price_per_day), STR_active)))

\* a variant that takes any vehicle found, deleted or rented
add_contract_car_unchecked(f, contract_id, car_id, cust_id, start, end, confirm, car) ==
    IF car = None THEN [fs |-> f, ret |-> FALSE]
    ELSE IF CustomerRepository_find(f, cust_id) = None THEN [fs |-> f, ret |-> FALSE]
    ELSE add_contract_days(f, contract_id, car_id, cust_id, start, end, confirm,
                           car, date_diff_days(start, end))

\* add_contract from the vehicle on: deleted, rented, then the customer
add_contract_car(f, contract_id, car_id, cust_id, start, end, confirm, car) ==
    IF car = None \/ lower(car.status) = STR_deleted THEN [fs |-> f, ret |-> FALSE]
    ELSE IF car_is_rented(car) THEN [fs |-> f, ret |-> FALSE]
    ELSE IF CustomerRepository_find(f, cust_id) = None THEN [fs |-> f, ret |-> FALSE]
    ELSE add_contract_days(f, contract_id, car_id, cust_id, start, end, confirm,
                           car, date_diff_days(start, end))

\* menu.add_contract with the answers typed at its prompts; ret tells whether
\* the contract was created
add_contract(f, contract_id, car_id, cust_id, start, end, confirm) ==
    IF ContractRepository_find(f, contract_id) # None THEN [fs |-> f, ret |-> FALSE]
    ELSE add_contract_car(f, contract_id, car_id, cust_id, start, end, confirm,
                          CarRepository_find(f, car_id))

\* close_contract, the end: repo.update(c), then car.rented = 'No' and
\* cars.update
close_contract_save(car, updated) ==
    IF updated.ret
    THEN [fs |-> CarRepository_update(updated.fs, car.car_id,
                                      [car EXCEPT !.rented = STR_No]).fs,
          ret |-> TRUE]
    ELSE [fs |-> updated.fs, ret |-> FALSE]

\* close_contract from the days on: the vehicle, the cost, the closed contract
close_contract_days(f, cid, c, actual_end, days, car) ==
    IF days = ValueError THEN [fs |-> f, ret |-> FALSE]
    ELSE IF car = None THEN [fs |-> f, ret |-> FALSE]
    ELSE close_contract_save(car,
            ContractRepository_update(f, cid,
                [c EXCEPT !.total_cost = int_times_float(days, car.price_per_day),
                          !.end_date = actual_end,
                          !.status = STR_closed]))

\* close_contract from the return date on
close_contract_end(f, cid, c, actual_end) ==
    close_contract_days(f, cid, c, actual_end,
                        date_diff_days(c.start_date, actual_end),
                        CarRepository_find(f, c.car_id))

\* a variant that does not look at the contract's status
close_contract_found_reclose(f, cid, typed_end, c) ==
    IF c = None THEN [fs |-> f, ret |-> FALSE]
    ELSE close_contract_end(f, cid, c,
            IF strip(typed_end) # <<>> THEN strip(typed_end) ELSE c.end_date)

\* close_contract from the contract on: closed already, then the date typed or
\* the contract's end date
close_contract_found(f, cid, typed_end, c) ==
    IF c = None THEN [fs |-> f, ret |-> FALSE]
    ELSE IF lower(c.status) = STR_closed THEN [fs |-> f, ret |-> FALSE]
    ELSE close_contract_end(f, cid, c,
            IF strip(typed_end) # <<>> THEN strip(typed_end) ELSE c.end_date)

\* menu.close_contract with the answers typed at its prompts; ret tells whether
\* the contract was closed
close_contract(f, cid, typed_end) ==
    close_contract_found(f, cid, typed_end, ContractRepository_find(f, cid))

\* menu.delete_car
delete_car(f, car_id) == CarRepository_mark_deleted(f, car_id)

(***************************************************************************)
(* The contract lifecycle driven from the menu: add_contract,              *)
(* close_contract and delete_car, on the stores add_car and add_customer   *)
(* have filled.                                                            *)
(***************************************************************************)
\* "2024-01-02"
STR_2024_01_02 == <<50, 48, 50, 52, 45, 48, 49, 45, 48, 50>>

\* "2024-02-30", a day that does not exist
STR_2024_02_30 == <<50, 48, 50, 52, 45, 48, 50, 45, 51, 48>>

STR_n == <<110>>

\* what input_nonempty(prompt, 10) hands over: stripped, not empty, at most 10 bytes
MenuContractIds == {STR_K1, STR_K2}

MenuCarIds == {STR_C1, STR_C2, STR_C3}

\* the answers to the other prompts of add_contract: customer id, start date,
\* end date, confirmation
MenuAnswers ==
    {<<STR_U1, STR_2024_01_01, STR_2024_01_03, STR_y>>,
     <<STR_U2, STR_2024_01_01, STR_2024_01_03, STR_y>>,
     <<STR_U1, STR_2024_01_01, STR_2024_02_30, STR_y>>,
     <<STR_U1, STR_2024_01_01, STR_2024_01_03, STR_n>>}

\* the answer to the prompt of close_contract: nothing, a date, a wrong date
MenuReturnDates == {<<>>, STR_2024_01_02, STR_2024_02_30}

\* two vehicles and a customer added through the menu, no contract
InitMenu ==
    /\ fs = [EmptyStores EXCEPT
                ![CARS_DAT] = Car_pack(SampleCar(STR_C1, STR_AB1234))
                              \o Car_pack(SampleCar(STR_C2, STR_AB1234)),
                ![CUSTOMERS_DAT] = Customer_pack(SampleCustomer(STR_U1, STR_Ann))]
    /\ call = NoCall
    /\ ret = FALSE
    /\ pc = "idle"
    /\ job = NoJob
    /\ cin = NoInput
    /\ cout = NoOutput
    /\ rd = NoReader
    /\ handles = {}
    /\ inv = NoInvokers
    /\ raced = FALSE

\* call records which operation of the menu ran, ret whether it did its work
AddContract(contract_id, car_id, cust_id, start, end, confirm) ==
    /\ pc = "idle"
    /\ LET r == add_contract(fs, contract_id, car_id, cust_id, start, end, confirm)
       IN  fs' = r.fs /\ ret' = r.ret
    /\ call' = [op |-> "add_contract", id |-> <<>>, e |-> NoCar]
    /\ UNCHANGED <<pc, job, cin, cout, rd, handles, inv, raced>>

CloseContract(cid, typed_end) ==
    /\ pc = "idle"
    /\ LET r == close_contract(fs, cid, typed_end)
       IN  fs' = r.fs /\ ret' = r.ret
    /\ call' = [op |-> "close_contract", id |-> cid, e |-> NoCar]
    /\ UNCHANGED <<pc, job, cin, cout, rd, handles, inv, raced>>

DeleteCar(car_id) ==
    /\ pc = "idle"
    /\ LET r == delete_car(fs, car_id)
       IN  fs' = r.fs /\ ret' = r.ret
    /\ call' = [op |-> "delete_car", id |-> <<>>, e |-> NoCar]
    /\ UNCHANGED <<pc, job, cin, cout, rd, handles, inv, raced>>

NextMenu ==
    \/ \E contract_id \in MenuContractIds, car_id \in MenuCarIds, a \in MenuAnswers :
          AddContract(contract_id, car_id, a[1], a[2], a[3], a[4])
    \/ \E cid \in MenuContractIds, typed_end \in MenuReturnDates :
          CloseContract(cid, typed_end)
    \/ \E car_id \in MenuCarIds : DeleteCar(car_id)

SpecMenu == InitMenu /\ [][NextMenu]_vars

\* the indexes of the active contracts that reference the vehicle
ActiveContractsOn(f, car_id) ==
    {k \in 1..Len(ContractRepository_all(f)) :
        /\ ContractRepository_all(f)[k].car_id = car_id
        /\ ContractRepository_all(f)[k].status = STR_active}

\* C20: after any sequence of add_contract, close_contract and delete_car from
\* stores with no rented vehicle and no active contract, a vehicle's rented
\* flag is 'Yes' exactly when an active contract references it, and no vehicle
\* is referenced by more than one active contract.
C20_RentalInvariant ==
    \A i \in 1..Len(CarRepository_all(fs)) :
        LET car == CarRepository_all(fs)[i]
        IN  /\ car.rented = STR_Yes <=> ActiveContractsOn(fs, car.car_id) # {}
            /\ Cardinality(ActiveContractsOn(fs, car.car_id)) <= 1

\* a vehicle was rented out, deleted, returned and, the deleted one being
\* refused, the other is rented out under a contract that is active
C20_Witness ==
    /\ Len(ContractRepository_all(fs)) = 2
    /\ ContractRepository_all(fs)[1].status = STR_closed
    /\ ContractRepository_all(fs)[2].status = STR_active
    /\ \E i, j \in 1..Len(CarRepository_all(fs)) :
          /\ CarRepository_all(fs)[i].car_id = ContractRepository_all(fs)[1].car_id
          /\ CarRepository_all(fs)[i].status = STR_Deleted
          /\ CarRepository_all(fs)[i].rented = STR_No
          /\ CarRepository_all(fs)[j].car_id = ContractRepository_all(fs)[2].car_id
          /\ CarRepository_all(fs)[j].rented = STR_Yes

(***************************************************************************)
(* Day counting and contract cost: date_diff_days on the dates typed at    *)
(* the prompts, and the cost add_contract and close_contract store.        *)
(***************************************************************************)
\* "2025-09-20"
STR_2025_09_20 == <<50, 48, 50, 53, 45, 48, 57, 45, 50, 48>>

\* "2025-09-25"
STR_2025_09_25 == <<50, 48, 50, 53, 45, 48, 57, 45, 50, 53>>

\* "2024-02-28"
STR_2024_02_28 == <<50, 48, 50, 52, 45, 48, 50, 45, 50, 56>>

\* "2024-03-01"
STR_2024_03_01 == <<50, 48, 50, 52, 45, 48, 51, 45, 48, 49>>

\* "2023-12-31"
STR_2023_12_31 == <<50, 48, 50, 51, 45, 49, 50, 45, 51, 49>>

\* "2025-9-5", which strptime accepts
STR_2025_9_5 == <<50, 48, 50, 53, 45, 57, 45, 53>>

\* the dates typed at the prompts; the last is no day of the calendar
CostDates ==
    {STR_2025_09_20, STR_2025_09_25, STR_2024_02_28, STR_2024_03_01,
     STR_2023_12_31, STR_2025_9_5, STR_2024_02_30}

\* the return dates typed at the prompt of close_contract
CostReturnDates == {<<>>, STR_2025_09_25}

\* the calendar day a date text names, as <<year, month, day>>
Civil(s) ==
    CASE s = STR_2025_09_20 -> <<2025, 9, 20>>
      [] s = STR_2025_09_25 -> <<2025, 9, 25>>
      [] s = STR_2024_02_28 -> <<2024, 2, 28>>
      [] s = STR_2024_03_01 -> <<2024, 3, 1>>
      [] s = STR_2023_12_31 -> <<2023, 12, 31>>
      [] s = STR_2025_9_5   -> <<2025, 9, 5>>

\* the first day of the month after a calendar day's month
NextMonth(t) == IF t[2] < 12 THEN <<t[1], t[2] + 1, 1>> ELSE <<t[1] + 1, 1, 1>>

\* a calendar day comes before another
Before(a, b) ==
    \/ a[1] < b[1]
    \/ a[1] = b[1] /\ a[2] < b[2]
    \/ a[1] = b[1] /\ a[2] = b[2] /\ a[3] < b[3]

RECURSIVE StepsTo(_, _)
\* how many times the day after must be taken to get from a to b, a not after
\* b: within one month the difference of the days, else the days to the end of
\* a's month, one more to the first of the next, and the steps from there
StepsTo(a, b) ==
    IF a[1] = b[1] /\ a[2] = b[2] THEN b[3] - a[3]
    ELSE (DaysInMonth(a[1], a[2]) - a[3] + 1) + StepsTo(NextMonth(a), b)

\* the days of the calendar from a to b, both counted; none when b is before a
InclusiveDays(a, b) == IF Before(b, a) THEN 0 ELSE StepsTo(a, b) + 1

\* one vehicle at 2500 a day and one customer, no contract; the dates the user
\* will type are drawn here
InitCost ==
    /\ fs = [EmptyStores EXCEPT
                ![CARS_DAT] = Car_pack(SampleCar(STR_C1, STR_AB1234)),
                ![CUSTOMERS_DAT] = Customer_pack(SampleCustomer(STR_U1, STR_Ann))]
    /\ call = NoCall
    /\ ret = FALSE
    /\ pc = "idle"
    /\ job = NoJob
    /\ cin \in [start : CostDates, end : CostDates]
    /\ cout = NoOutput
    /\ rd = NoReader
    /\ handles = {}
    /\ inv = NoInvokers
    /\ raced = FALSE

\* date_diff_days(start, end); ret is the number it returns, or ValueError
DateDiff ==
    /\ pc = "idle"
    /\ call' = [op |-> "date_diff_days", id |-> <<>>, e |-> NoCar]
    /\ ret' = date_diff_days(cin.start, cin.end)
    /\ UNCHANGED <<fs, pc, job, cin, cout, rd, handles, inv, raced>>

NextCost ==
    \/ DateDiff
    \/ AddContract(STR_K1, STR_C1, STR_U1, cin.start, cin.end, STR_y)
    \/ \E typed_end \in CostReturnDates : CloseContract(STR_K1, typed_end)

SpecCost == InitCost /\ [][NextCost]_vars

\* the contract's cost is the days from its start date to its end date, both
\* counted, times the daily rate of its vehicle
CostIsDaysTimesRate(c) ==
    c.total_cost =
        float(InclusiveDays(Civil(c.start_date), Civil(c.end_date))
              * float_int(CarRepository_find(fs, c.car_id).price_per_day))

C22_AddVisibleAfterTail ==
    [][(/\ call'.op = "add"
        /\ ret' = TRUE
        /\ Len(fs[CARS_DAT]) % CAR_RECORD_SIZE # 0
        /\ CarFitsRecord(call'.e))
       => /\ CarRepository_all(fs') # <<>>
          /\ CarRepository_all(fs')[Len(CarRepository_all(fs'))] = call'.e
          /\ CarRepository_find(fs', call'.e.car_id) = call'.e]_vars

(***************************************************************************)
(* Claims about single operations of the menu, checked under SpecMenu.     *)
(***************************************************************************)
\* C23: a contract record whose status is 'closed' is at the same position with
\* the same bytes after every add_contract, close_contract and delete_car, and
\* close_contract on a closed contract leaves the contracts file and the
\* vehicles file as they were.
C23_ClosedStaysClosed ==
    [][/\ \A k \in 1..Len(ContractBlocks(fs)) :
             Contract_unpack(ContractBlocks(fs)[k]).status = STR_closed
             => /\ k <= Len(ContractBlocks(fs'))
                /\ ContractBlocks(fs')[k] = ContractBlocks(fs)[k]
       /\ (/\ call'.op = "close_contract"
           /\ ContractRepository_find(fs, call'.id) # None
           /\ ContractRepository_find(fs, call'.id).status = STR_closed)
          => /\ ret' = FALSE
             /\ fs'[CONTRACTS_DAT] = fs[CONTRACTS_DAT]
             /\ fs'[CARS_DAT] = fs[CARS_DAT]]_vars

\* close_contract was refused on a closed contract while another is active
C23_Witness ==
    /\ call.op = "close_contract"
    /\ ret = FALSE
    /\ ContractRepository_find(fs, call.id) # None
    /\ ContractRepository_find(fs, call.id).status = STR_closed
    /\ \E k \in 1..Len(ContractRepository_all(fs)) :
          ContractRepository_all(fs)[k].status = STR_active

\* the contract add_contract appended in this step: the last record of the
\* contracts file afterwards
Appended(f) == Contract_unpack(ContractBlocks(f)[Len(ContractBlocks(f))])

\* C24: when add_contract appends a contract record, the vehicle it references
\* was in the vehicles file with a status other than 'Deleted' and a rented flag
\* other than 'Yes', the customer it references was in the customers file and no
\* contract carried its id; when add_contract appends none, the contracts file
\* and the vehicles file are as they were.
C24_EligiblePair ==
    [][call'.op = "add_contract"
       => IF Len(ContractBlocks(fs')) > Len(ContractBlocks(fs))
          THEN /\ ret' = TRUE
               /\ Len(ContractBlocks(fs')) = Len(ContractBlocks(fs)) + 1
               /\ CarRepository_find(fs, Appended(fs').car_id) # None
               /\ CarRepository_find(fs, Appended(fs').car_id).status # STR_Deleted
               /\ CarRepository_find(fs, Appended(fs').car_id).rented # STR_Yes
               /\ CustomerRepository_find(fs, Appended(fs').cust_id) # None
               /\ ContractRepository_find(fs, Appended(fs').contract_id) = None
          ELSE /\ ret' = FALSE
               /\ fs'[CONTRACTS_DAT] = fs[CONTRACTS_DAT]
               /\ fs'[CARS_DAT] = fs[CARS_DAT]]_vars

\* a second contract was created, on the vehicle that is neither rented out
\* nor deleted
C24_Witness ==
    /\ call.op = "add_contract"
    /\ ret = TRUE
    /\ Len(ContractBlocks(fs)) = 2
    /\ \E i \in 1..Len(CarRepository_all(fs)) :
          /\ CarRepository_all(fs)[i].car_id # Appended(fs).car_id
          /\ \/ CarRepository_all(fs)[i].rented = STR_Yes
             \/ CarRepository_all(fs)[i].status = STR_Deleted

(***************************************************************************)
(* mark_deleted called again with the same id.                             *)
(***************************************************************************)
\* "1234567 " followed by U+0E01, 11 bytes of UTF-8: cut inside the last
\* character by the 10-byte id field
STR_id_cut == <<49, 50, 51, 52, 53, 54, 55, 32, 3585>>

\* "1234567 ", the id a read shows for the record add wrote from it
STR_id_cut_read == <<49, 50, 51, 52, 53, 54, 55, 32>>

\* the vehicles callers add
TwiceCars ==
    {SampleCar(STR_id_cut, STR_AB1234), SampleCar(STR_C1, STR_plate_cut),
     SampleCar(STR_C2, STR_AB1234)}

\* the ids callers pass to mark_deleted: the ids all() shows after the adds,
\* and one it never shows
TwiceIds == {STR_id_cut_read, STR_C1, STR_C2, STR_C1_space}

NextTwice ==
    \/ \E car \in TwiceCars : CarAdd(car)
    \/ \E car_id \in TwiceIds : CarMarkDeleted(car_id)

SpecTwice == Init /\ [][NextTwice]_vars

\* C25: when mark_deleted(id) has returned True and is called again with the
\* same id, it returns True again and leaves every file byte for byte as the
\* first call left it.
C25_MarkDeletedTwice ==
    [][(/\ call.op = "mark_deleted"
        /\ ret = TRUE
        /\ call'.op = "mark_deleted"
        /\ call'.id = call.id)
       => (ret' = TRUE /\ fs' = fs)]_vars

====
